---- MODULE Spec2Model ----
(***************************************************************************)
(* TaskFlow Pro: the automation rule engine (utils/automationEngine.ts)    *)
(* and the bookkeeping of rule trigger counts.                              *)
(*                                                                          *)
(* JavaScript values are modelled as tagged records so that values of       *)
(* different types can be compared without a type error:                    *)
(*   undefined  [undef |-> TRUE]      string  [str |-> "done"]              *)
(*   number     [num |-> 5]           array   [arr |-> <<v1, v2>>]          *)
(*   Date       [ms |-> t, ref |-> r] (r is the identity of the object; 0   *)
(*              for an object made by new Date() during the call)           *)
(* A task is a record of such values; an absent oldTask is undefined.       *)
(***************************************************************************)
EXTENDS Integers, Sequences, FiniteSets, TLC

VARIABLES
    pc,              \* "call" before a call, then "executed" / "counted";
                     \* in the App, the operation that ran last
    oldTask,         \* argument oldTask of executeAutomationRules
    newTask,         \* argument newTask of executeAutomationRules
    rules,           \* argument rules (an array of AutomationRule)
    now,             \* the wall clock read by new Date(); a call is
                     \* synchronous, all its readings are the same instant
    task,            \* returned task
    triggeredRules,  \* returned triggeredRules (the spec's firedRuleIds)
    firedArg,        \* argument triggeredRuleIds of updateRuleTriggerCount
    countedRules,    \* array returned by updateRuleTriggerCount
    tasks,           \* App state: tasks
    automationRules, \* App state: automationRules
    uuid,            \* number of ids crypto.randomUUID() has given out
    firedLog         \* history: the ids every call of the engine made by the
                     \* App reported fired, call after call

vars == <<pc, oldTask, newTask, rules, now, task, triggeredRules, firedArg, countedRules,
          tasks, automationRules, uuid, firedLog>>

\* the App state, which a call of the engine alone does not touch
appVars == <<tasks, automationRules, uuid, firedLog>>

----------------------------------------------------------------------------
(* JavaScript values *)

Undef == [undef |-> TRUE]
Str(s) == [str |-> s]
Num(n) == [num |-> n]
Arr(q) == [arr |-> q]
DateV(t, r) == [ms |-> t, ref |-> r]
NaN == [nan |-> TRUE]

IsUndef(v) == DOMAIN v = {"undef"}
IsStr(v) == DOMAIN v = {"str"}
IsNum(v) == DOMAIN v = {"num"}
IsArr(v) == DOMAIN v = {"arr"}
IsDate(v) == DOMAIN v = {"ms", "ref"}

\* a === b: primitives by value, objects (arrays, dates) by identity.  Every
\* array expression creates a fresh array, so two arrays met by the engine
\* (a task's tags and a rule's value) are never the same object.
StrictEq(a, b) ==
    IF IsArr(a) \/ IsArr(b) THEN FALSE ELSE a = b

\* if (v): undefined, "", 0 and NaN are falsy, objects are truthy.
Truthy(v) ==
    /\ ~IsUndef(v)
    /\ v # Str("")
    /\ v # Num(0)

\* obj[key] on a record: undefined for a key the object does not have.
Get(obj, key) == IF key \in DOMAIN obj THEN obj[key] ELSE Undef

\* { ...a, ...b }
Spread(a, b) ==
    [k \in DOMAIN a \cup DOMAIN b |-> IF k \in DOMAIN b THEN b[k] ELSE a[k]]

EmptyObj == [k \in {} |-> Undef]

\* array.includes(v): SameValueZero on the elements.
ArrIncludes(q, v) == \E i \in 1..Len(q) : StrictEq(q[i], v)

----------------------------------------------------------------------------
(* Strings.  TLC cannot take a string apart, so the characters of every     *)
(* string of the model are given by a table; String(v), toLowerCase,        *)
(* String.includes and Number(v) are then computed on the characters.       *)

CharsOf(s) ==
    CASE s = "" -> <<>>
      [] s = "todo" -> <<"t", "o", "d", "o">>
      [] s = "done" -> <<"d", "o", "n", "e">>
      [] s = "Done" -> <<"D", "o", "n", "e">>
      [] s = "review" -> <<"r", "e", "v", "i", "e", "w">>
      [] s = "low" -> <<"l", "o", "w">>
      [] s = "high" -> <<"h", "i", "g", "h">>
      [] s = "urgent" -> <<"u", "r", "g", "e", "n", "t">>
      [] s = "work" -> <<"w", "o", "r", "k">>
      [] s = "alice" -> <<"a", "l", "i", "c", "e">>
      [] s = "bob" -> <<"b", "o", "b">>
      [] s = "t1" -> <<"t", "1">>
      [] s = "t2" -> <<"t", "2">>
      [] s = "und" -> <<"u", "n", "d">>
      [] s = "undefined" -> <<"u", "n", "d", "e", "f", "i", "n", "e", "d">>
      [] s = "hello" -> <<"h", "e", "l", "l", "o">>
      [] s = "T" -> <<"T">>
      [] s = "x" -> <<"x">>
      [] s = "5" -> <<"5">>
      [] s = "50" -> <<"5", "0">>

Digits == <<"0", "1", "2", "3", "4", "5", "6", "7", "8", "9">>

IsDigit(c) == \E d \in 1..10 : Digits[d] = c
DigitVal(c) == (CHOOSE d \in 1..10 : Digits[d] = c) - 1

Upper == <<"A", "B", "C", "D", "E", "F", "G", "H", "I", "J", "K", "L", "M",
           "N", "O", "P", "Q", "R", "S", "T", "U", "V", "W", "X", "Y", "Z">>
Lower == <<"a", "b", "c", "d", "e", "f", "g", "h", "i", "j", "k", "l", "m",
           "n", "o", "p", "q", "r", "s", "t", "u", "v", "w", "x", "y", "z">>

\* s.toLowerCase()
ToLowerCase(cs) ==
    [i \in 1..Len(cs) |->
        IF \E u \in 1..26 : Upper[u] = cs[i]
        THEN Lower[CHOOSE u \in 1..26 : Upper[u] = cs[i]]
        ELSE cs[i]]

\* s.includes(t): t occurs in s as a substring (the empty string always does).
StrIncludes(cs, ct) ==
    \E i \in 1..(Len(cs) - Len(ct) + 1) : SubSeq(cs, i, i + Len(ct) - 1) = ct

\* String(n) for an integer n
RECURSIVE NatChars(_)
NatChars(n) ==
    IF n < 10 THEN <<Digits[n + 1]>>
    ELSE NatChars(n \div 10) \o <<Digits[(n % 10) + 1]>>

IntChars(n) == IF n < 0 THEN <<"-">> \o NatChars(-n) ELSE NatChars(n)

\* String(v).  An array is joined with ","; undefined elements print as "".
\* The text of a Date depends on the locale; it is kept as one opaque
\* character that occurs in no other string of the model.
RECURSIVE ToStr(_)
RECURSIVE Join(_)
Join(q) ==
    IF Len(q) = 0 THEN <<>>
    ELSE (IF IsUndef(q[1]) THEN <<>> ELSE ToStr(q[1]))
         \o (IF Len(q) = 1 THEN <<>> ELSE <<",">> \o Join(Tail(q)))
ToStr(v) ==
    CASE IsUndef(v) -> CharsOf("undefined")
      [] IsStr(v) -> CharsOf(v.str)
      [] IsNum(v) -> IntChars(v.num)
      [] IsArr(v) -> Join(v.arr)
      [] IsDate(v) -> <<"<date>">>

\* the value of a string of decimal digits
RECURSIVE DigitsVal(_)
DigitsVal(cs) ==
    IF Len(cs) = 0 THEN 0
    ELSE 10 * DigitsVal(SubSeq(cs, 1, Len(cs) - 1)) + DigitVal(cs[Len(cs)])

\* Number(s) for a string: "" is 0, a string of digits (with an optional
\* sign) is its value, anything else is NaN.  The strings of the model hold
\* no white space, fraction, exponent or radix prefix.
StrToNumber(cs) ==
    IF Len(cs) = 0 THEN Num(0)
    ELSE IF \A i \in 1..Len(cs) : IsDigit(cs[i]) THEN Num(DigitsVal(cs))
    ELSE IF cs[1] = "-" /\ Len(cs) > 1 /\ \A i \in 2..Len(cs) : IsDigit(cs[i])
         THEN Num(0 - DigitsVal(Tail(cs)))
    ELSE NaN

\* Number(v)
ToNumber(v) ==
    CASE IsUndef(v) -> NaN
      [] IsNum(v) -> v
      [] IsStr(v) -> StrToNumber(CharsOf(v.str))
      [] IsArr(v) -> StrToNumber(Join(v.arr))
      [] IsDate(v) -> Num(v.ms)

\* a > b and a < b on numbers: false as soon as one side is NaN.
NumGt(a, b) == IsNum(a) /\ IsNum(b) /\ a.num > b.num
NumLt(a, b) == IsNum(a) /\ IsNum(b) /\ a.num < b.num

----------------------------------------------------------------------------
(* utils/automationEngine.ts *)

MsPerHour == 1000 * 60 * 60

\* evaluateCondition(task, condition).  All the cases of the switch on the
\* field read the property of that name, as the default case does.
evaluateCondition(t, condition) ==
    LET taskValue == Get(t, condition.field)
        value == condition.value
    IN  CASE condition.operator = "equals" -> StrictEq(taskValue, value)
          [] condition.operator = "not_equals" -> ~StrictEq(taskValue, value)
          [] condition.operator = "greater_than" ->
                NumGt(ToNumber(taskValue), ToNumber(value))
          [] condition.operator = "less_than" ->
                NumLt(ToNumber(taskValue), ToNumber(value))
          [] condition.operator = "contains" ->
                IF IsArr(taskValue) THEN ArrIncludes(taskValue.arr, value)
                ELSE StrIncludes(ToLowerCase(ToStr(taskValue)),
                                 ToLowerCase(ToStr(value)))
          [] OTHER -> FALSE

\* a plausible slip: some instead of every, and no early return
evaluateConditionsSome(t, conditions) ==
    \E i \in 1..Len(conditions) : evaluateCondition(t, conditions[i])

\* evaluateConditions(task, conditions)
evaluateConditions(t, conditions) ==
    IF Len(conditions) = 0 THEN TRUE
    ELSE \A i \in 1..Len(conditions) : evaluateCondition(t, conditions[i])

\* a plausible slip: the tag is added without looking for it in the list
addTagAlways(t, parameters) ==
    IF Truthy(Get(parameters, "tag"))
    THEN LET currentTags == IF Truthy(Get(t, "tags")) THEN t.tags.arr ELSE <<>>
         IN  [tags |-> Arr(Append(currentTags, parameters.tag))]
    ELSE EmptyObj

\* a plausible slip: the tag is put in front of the list
addTagInFront(t, parameters) ==
    IF Truthy(Get(parameters, "tag"))
    THEN LET currentTags == IF Truthy(Get(t, "tags")) THEN t.tags.arr ELSE <<>>
         IN  IF ~ArrIncludes(currentTags, parameters.tag)
             THEN [tags |-> Arr(<<parameters.tag>> \o currentTags)]
             ELSE EmptyObj
    ELSE EmptyObj

\* the case 'add_tag' of applyAction
addTag(t, parameters) ==
    IF Truthy(Get(parameters, "tag"))
    THEN LET currentTags == IF Truthy(Get(t, "tags")) THEN t.tags.arr ELSE <<>>
         IN  IF ~ArrIncludes(currentTags, parameters.tag)
             THEN [tags |-> Arr(Append(currentTags, parameters.tag))]
             ELSE EmptyObj
    ELSE EmptyObj

\* a plausible slip: a task set to done is also marked complete
applyActionCompletes(t, action) ==
    LET parameters == action.parameters
    IN  CASE action.action = "set_status" ->
                IF Truthy(Get(parameters, "status"))
                THEN IF parameters.status = Str("done")
                     THEN [status |-> parameters.status, completionPercentage |-> Num(100)]
                     ELSE [status |-> parameters.status]
                ELSE EmptyObj
          [] action.action = "set_priority" ->
                IF Truthy(Get(parameters, "priority"))
                THEN [priority |-> parameters.priority] ELSE EmptyObj
          [] action.action = "assign_to" ->
                IF ~IsUndef(Get(parameters, "assignedTo"))
                THEN [assignedTo |-> parameters.assignedTo] ELSE EmptyObj
          [] action.action = "add_tag" -> addTag(t, parameters)
          [] action.action = "send_notification" -> EmptyObj
          [] OTHER -> EmptyObj

\* a plausible slip: assign_to tests its parameter the way set_status does
applyActionTruthyAssignee(t, action) ==
    LET parameters == action.parameters
    IN  CASE action.action = "set_status" ->
                IF Truthy(Get(parameters, "status"))
                THEN [status |-> parameters.status] ELSE EmptyObj
          [] action.action = "set_priority" ->
                IF Truthy(Get(parameters, "priority"))
                THEN [priority |-> parameters.priority] ELSE EmptyObj
          [] action.action = "assign_to" ->
                IF Truthy(Get(parameters, "assignedTo"))
                THEN [assignedTo |-> parameters.assignedTo] ELSE EmptyObj
          [] action.action = "add_tag" -> addTag(t, parameters)
          [] action.action = "send_notification" -> EmptyObj
          [] OTHER -> EmptyObj

\* applyAction(task, action): the partial task of the updates.
applyAction(t, action) ==
    LET parameters == action.parameters
    IN  CASE action.action = "set_status" ->
                IF Truthy(Get(parameters, "status"))
                THEN [status |-> parameters.status] ELSE EmptyObj
          [] action.action = "set_priority" ->
                IF Truthy(Get(parameters, "priority"))
                THEN [priority |-> parameters.priority] ELSE EmptyObj
          [] action.action = "assign_to" ->
                IF ~IsUndef(Get(parameters, "assignedTo"))
                THEN [assignedTo |-> parameters.assignedTo] ELSE EmptyObj
          [] action.action = "add_tag" -> addTag(t, parameters)
          [] action.action = "send_notification" -> EmptyObj
          [] OTHER -> EmptyObj

\* a plausible slip: the new assignee is not tested, so unassigning matches
triggerSwitchAnyAssignee(rule, change, clock) ==
    CASE rule.trigger = "status_changed" ->
            /\ "status" \in change.changedFields
            /\ ~StrictEq(Get(change.oldTask, "status"), change.newTask.status)
      [] rule.trigger = "priority_changed" ->
            /\ "priority" \in change.changedFields
            /\ ~StrictEq(Get(change.oldTask, "priority"), change.newTask.priority)
      [] rule.trigger = "assigned" ->
            /\ "assignedTo" \in change.changedFields
            /\ ~StrictEq(Get(change.oldTask, "assignedTo"), change.newTask.assignedTo)
      [] rule.trigger = "created" -> IsUndef(change.oldTask)
      [] rule.trigger = "due_date_approaching" ->
            IF Truthy(change.newTask.dueDate)
            THEN LET msUntilDue == change.newTask.dueDate.ms - clock
                 IN  /\ msUntilDue > 0
                     /\ msUntilDue <= 24 * MsPerHour
            ELSE FALSE
      [] OTHER -> FALSE

\* a plausible slip: the change set is not consulted, so a creation matches
triggerSwitchNoChangeSet(rule, change, clock) ==
    CASE rule.trigger = "status_changed" ->
            ~StrictEq(Get(change.oldTask, "status"), change.newTask.status)
      [] rule.trigger = "priority_changed" ->
            ~StrictEq(Get(change.oldTask, "priority"), change.newTask.priority)
      [] rule.trigger = "assigned" ->
            /\ "assignedTo" \in change.changedFields
            /\ ~StrictEq(Get(change.oldTask, "assignedTo"), change.newTask.assignedTo)
            /\ Truthy(change.newTask.assignedTo)
      [] rule.trigger = "created" -> IsUndef(change.oldTask)
      [] rule.trigger = "due_date_approaching" ->
            IF Truthy(change.newTask.dueDate)
            THEN LET msUntilDue == change.newTask.dueDate.ms - clock
                 IN  /\ msUntilDue > 0
                     /\ msUntilDue <= 24 * MsPerHour
            ELSE FALSE
      [] OTHER -> FALSE

\* a plausible slip: the window is closed at 0 and open at 24 hours
triggerSwitchShiftedWindow(rule, change, clock) ==
    CASE rule.trigger = "status_changed" ->
            /\ "status" \in change.changedFields
            /\ ~StrictEq(Get(change.oldTask, "status"), change.newTask.status)
      [] rule.trigger = "priority_changed" ->
            /\ "priority" \in change.changedFields
            /\ ~StrictEq(Get(change.oldTask, "priority"), change.newTask.priority)
      [] rule.trigger = "assigned" ->
            /\ "assignedTo" \in change.changedFields
            /\ ~StrictEq(Get(change.oldTask, "assignedTo"), change.newTask.assignedTo)
            /\ Truthy(change.newTask.assignedTo)
      [] rule.trigger = "created" -> IsUndef(change.oldTask)
      [] rule.trigger = "due_date_approaching" ->
            IF Truthy(change.newTask.dueDate)
            THEN LET msUntilDue == change.newTask.dueDate.ms - clock
                 IN  /\ msUntilDue >= 0
                     /\ msUntilDue < 24 * MsPerHour
            ELSE FALSE
      [] OTHER -> FALSE

\* the switch on the trigger of shouldTriggerRule(rule, change); change =
\* {oldTask, newTask, changedFields} and clock is the value of new Date().
triggerSwitch(rule, change, clock) ==
    CASE rule.trigger = "status_changed" ->
            /\ "status" \in change.changedFields
            /\ ~StrictEq(Get(change.oldTask, "status"), change.newTask.status)
      [] rule.trigger = "priority_changed" ->
            /\ "priority" \in change.changedFields
            /\ ~StrictEq(Get(change.oldTask, "priority"), change.newTask.priority)
      [] rule.trigger = "assigned" ->
            /\ "assignedTo" \in change.changedFields
            /\ ~StrictEq(Get(change.oldTask, "assignedTo"), change.newTask.assignedTo)
            /\ Truthy(change.newTask.assignedTo)
      [] rule.trigger = "created" -> IsUndef(change.oldTask)
      [] rule.trigger = "due_date_approaching" ->
            IF Truthy(change.newTask.dueDate)
            THEN LET msUntilDue == change.newTask.dueDate.ms - clock
                 IN  \* hoursUntilDue = msUntilDue / MsPerHour
                     /\ msUntilDue > 0
                     /\ msUntilDue <= 24 * MsPerHour
            ELSE FALSE
      [] OTHER -> FALSE

\* a plausible slip: the enabled flag is not looked at
shouldTriggerRuleUngated(rule, change, clock) ==
    triggerSwitch(rule, change, clock)

\* shouldTriggerRule(rule, change)
shouldTriggerRule(rule, change, clock) ==
    IF ~rule.enabled THEN FALSE
    ELSE triggerSwitch(rule, change, clock)

fieldsToCheck ==
    <<"status", "priority", "category", "assignedTo", "dueDate", "startDate",
      "completionPercentage", "estimatedHours", "title", "description">>

\* a plausible slip: on a creation every field counts as changed
getChangedFieldsAllOnCreate(old, new) ==
    IF IsUndef(old)
    THEN {"created"} \cup {fieldsToCheck[i] : i \in 1..Len(fieldsToCheck)}
    ELSE {fieldsToCheck[i] : i \in
             {j \in 1..Len(fieldsToCheck) :
                 ~StrictEq(Get(old, fieldsToCheck[j]), Get(new, fieldsToCheck[j]))}}

\* getChangedFields(oldTask, newTask)
getChangedFields(old, new) ==
    IF IsUndef(old) THEN {"created"}
    ELSE {fieldsToCheck[i] : i \in
             {j \in 1..Len(fieldsToCheck) :
                 ~StrictEq(Get(old, fieldsToCheck[j]), Get(new, fieldsToCheck[j]))}}

\* [...rules].sort((a, b) => new Date(a.createdAt).getTime() -
\* new Date(b.createdAt).getTime()): Array.prototype.sort is stable, so rules
\* of equal createdAt keep their order in the array.
RECURSIVE sortByCreatedAt(_)
\* a plausible slip: no sort, the rules run in the order of the array
InsertAtEnd(sorted, r) == Append(sorted, r)

\* a plausible slip: an unstable sort that puts a rule before its equals
InsertBeforeEquals(sorted, r) ==
    LET k == Cardinality({i \in 1..Len(sorted) : sorted[i].createdAt.ms < r.createdAt.ms})
    IN  SubSeq(sorted, 1, k) \o <<r>> \o SubSeq(sorted, k + 1, Len(sorted))

Insert(sorted, r) ==
    LET k == Cardinality({i \in 1..Len(sorted) : sorted[i].createdAt.ms <= r.createdAt.ms})
    IN  SubSeq(sorted, 1, k) \o <<r>> \o SubSeq(sorted, k + 1, Len(sorted))
sortByCreatedAt(rs) ==
    IF Len(rs) = 0 THEN <<>>
    ELSE Insert(sortByCreatedAt(SubSeq(rs, 1, Len(rs) - 1)), rs[Len(rs)])

\* the inner loop: for (const action of rule.actions) ruleUpdates = {...}
RECURSIVE foldActions(_, _, _)
foldActions(updatedTask, actions, ruleUpdates) ==
    IF Len(actions) = 0 THEN ruleUpdates
    ELSE foldActions(updatedTask, Tail(actions),
                     Spread(ruleUpdates, applyAction(updatedTask, Head(actions))))

Reverse(q) == [i \in 1..Len(q) |-> q[Len(q) + 1 - i]]

\* a plausible slip: a patch already made is kept over a later one
\* ({...actionUpdates, ...ruleUpdates})
ruleStepFirstActionWins(rule, change, clock, acc) ==
    IF ~shouldTriggerRule(rule, change, clock) THEN acc
    ELSE IF ~evaluateConditions(acc.task, rule.conditions) THEN acc
    ELSE LET ruleUpdates == foldActions(acc.task, Reverse(rule.actions), EmptyObj)
         IN  IF DOMAIN ruleUpdates # {}
             THEN [task |-> Spread(acc.task, ruleUpdates),
                   triggeredRules |-> Append(acc.triggeredRules, rule.id)]
             ELSE acc

\* a plausible slip: the conditions are evaluated on newTask, not on the
\* working copy
ruleStepStaleConditions(rule, change, clock, acc) ==
    IF ~shouldTriggerRule(rule, change, clock) THEN acc
    ELSE IF ~evaluateConditions(change.newTask, rule.conditions) THEN acc
    ELSE LET ruleUpdates == foldActions(acc.task, rule.actions, EmptyObj)
         IN  IF DOMAIN ruleUpdates # {}
             THEN [task |-> Spread(acc.task, ruleUpdates),
                   triggeredRules |-> Append(acc.triggeredRules, rule.id)]
             ELSE acc

\* a plausible slip: the trigger is decided on the working copy
ruleStepTriggerOnCurrent(rule, change, clock, acc) ==
    IF ~shouldTriggerRule(rule, [change EXCEPT !.newTask = acc.task], clock) THEN acc
    ELSE IF ~evaluateConditions(acc.task, rule.conditions) THEN acc
    ELSE LET ruleUpdates == foldActions(acc.task, rule.actions, EmptyObj)
         IN  IF DOMAIN ruleUpdates # {}
             THEN [task |-> Spread(acc.task, ruleUpdates),
                   triggeredRules |-> Append(acc.triggeredRules, rule.id)]
             ELSE acc

\* a plausible slip: a rule counts as fired only if its patch changes a value
ruleStepEffectiveOnly(rule, change, clock, acc) ==
    IF ~shouldTriggerRule(rule, change, clock) THEN acc
    ELSE IF ~evaluateConditions(acc.task, rule.conditions) THEN acc
    ELSE LET ruleUpdates == foldActions(acc.task, rule.actions, EmptyObj)
         IN  IF Spread(acc.task, ruleUpdates) # acc.task
             THEN [task |-> Spread(acc.task, ruleUpdates),
                   triggeredRules |-> Append(acc.triggeredRules, rule.id)]
             ELSE acc

\* the body of the outer loop for one rule; acc = {task: updatedTask,
\* triggeredRules}
ruleStep(rule, change, clock, acc) ==
    IF ~shouldTriggerRule(rule, change, clock) THEN acc
    ELSE IF ~evaluateConditions(acc.task, rule.conditions) THEN acc
    ELSE LET ruleUpdates == foldActions(acc.task, rule.actions, EmptyObj)
         IN  IF DOMAIN ruleUpdates # {}
             THEN [task |-> Spread(acc.task, ruleUpdates),
                   triggeredRules |-> Append(acc.triggeredRules, rule.id)]
             ELSE acc

\* the outer loop: for (const rule of sortedRules) ...
RECURSIVE runRules(_, _, _, _)
runRules(sortedRules, change, clock, acc) ==
    IF Len(sortedRules) = 0 THEN acc
    ELSE runRules(Tail(sortedRules), change, clock,
                  ruleStep(Head(sortedRules), change, clock, acc))

\* a plausible slip: the loop run a second time over the result of the first
executeAutomationRulesTwoPasses(old, new, rs, clock) ==
    LET change == [oldTask |-> old, newTask |-> new,
                   changedFields |-> getChangedFields(old, new)]
        first == runRules(sortByCreatedAt(rs), change, clock,
                          [task |-> new, triggeredRules |-> <<>>])
    IN  runRules(sortByCreatedAt(rs), change, clock, first)

\* a plausible slip: the rules that did not fire are tried again on the result
executeAutomationRulesRetry(old, new, rs, clock) ==
    LET change == [oldTask |-> old, newTask |-> new,
                   changedFields |-> getChangedFields(old, new)]
        first == runRules(sortByCreatedAt(rs), change, clock,
                          [task |-> new, triggeredRules |-> <<>>])
        fired == {first.triggeredRules[k] : k \in 1..Len(first.triggeredRules)}
        rest == SelectSeq(sortByCreatedAt(rs), LAMBDA r : r.id \notin fired)
    IN  runRules(rest, change, clock, first)

\* executeAutomationRules(oldTask, newTask, rules)
executeAutomationRules(old, new, rs, clock) ==
    LET change == [oldTask |-> old, newTask |-> new,
                   changedFields |-> getChangedFields(old, new)]
    IN  runRules(sortByCreatedAt(rs), change, clock,
                 [task |-> new, triggeredRules |-> <<>>])

\* a plausible slip: rules.sort(...) without the copy sorts the caller's array
argumentsAfterSortInPlace(old, new, rs, clock) ==
    [oldTask |-> old, newTask |-> new, rules |-> sortByCreatedAt(rs)]

\* a plausible slip: currentTags.push(tag) writes into the tags array that
\* newTask shares with its shallow copy
argumentsAfterPush(old, new, rs, clock) ==
    [oldTask |-> old,
     newTask |-> [new EXCEPT !.tags = executeAutomationRules(old, new, rs, clock).task.tags],
     rules |-> rs]

\* the arguments of executeAutomationRules as the call leaves them: the loop
\* works on { ...newTask } and on [...rules]; every patch is a new object
\* ({ ...updatedTask, ...ruleUpdates }) and every extended tags list a new
\* array ([...currentTags, tag]); no statement writes into oldTask, newTask,
\* the rules array or a rule.
argumentsAfter(old, new, rs, clock) ==
    [oldTask |-> old, newTask |-> new, rules |-> rs]

\* a plausible slip: a rule already stamped with this instant is skipped, so
\* that a repeated call with the same ids counts once
updateRuleTriggerCountOnce(rs, triggeredRuleIds, clock) ==
    IF Len(triggeredRuleIds) = 0 THEN rs
    ELSE [i \in 1..Len(rs) |->
            IF /\ \E k \in 1..Len(triggeredRuleIds) : triggeredRuleIds[k] = rs[i].id
               /\ rs[i].lastTriggered # DateV(clock, 0)
            THEN [rs[i] EXCEPT !.triggerCount = @ + 1,
                               !.lastTriggered = DateV(clock, 0),
                               !.updatedAt = DateV(clock, 0)]
            ELSE rs[i]]

\* a plausible slip: every rule is counted as soon as one rule fired
updateRuleTriggerCountAll(rs, triggeredRuleIds, clock) ==
    IF Len(triggeredRuleIds) = 0 THEN rs
    ELSE [i \in 1..Len(rs) |->
            [rs[i] EXCEPT !.triggerCount = @ + 1,
                          !.lastTriggered = DateV(clock, 0),
                          !.updatedAt = DateV(clock, 0)]]

\* updateRuleTriggerCount(rules, triggeredRuleIds)
updateRuleTriggerCount(rs, triggeredRuleIds, clock) ==
    IF Len(triggeredRuleIds) = 0 THEN rs
    ELSE [i \in 1..Len(rs) |->
            IF \E k \in 1..Len(triggeredRuleIds) : triggeredRuleIds[k] = rs[i].id
            THEN [rs[i] EXCEPT !.triggerCount = @ + 1,
                               !.lastTriggered = DateV(clock, 0),
                               !.updatedAt = DateV(clock, 0)]
            ELSE rs[i]]

----------------------------------------------------------------------------
(* The inputs of the calls *)

MaxTags == 1          \* longest tags list of an input task
MaxCreatedAt == 2     \* createdAt of an input rule is 1..MaxCreatedAt
MaxTriggerCount == 1  \* triggerCount of an input rule is 0..MaxTriggerCount

Clock == 48 * MsPerHour

Statuses == {Str("todo"), Str("done")}
Priorities == {Str("low"), Str("urgent")}
Assignees == {Undef, Str(""), Str("alice")}
TagNames == {Str("t1"), Str("t2")}

RECURSIVE SeqsUpTo(_, _)
SeqsUpTo(S, n) ==
    IF n = 0 THEN {<<>>}
    ELSE LET shorter == SeqsUpTo(S, n - 1)
         IN  shorter \cup {Append(q, x) : q \in {r \in shorter : Len(r) = n - 1}, x \in S}

TagLists == {Arr(q) : q \in SeqsUpTo(TagNames, MaxTags)}

\* a task as createTask builds it (the fields the engine never reads are
\* left out)
Task(status, priority, assignedTo, tags, dueDate) ==
    [id |-> Str("x"), title |-> Str("hello"), description |-> Str(""),
     status |-> status, priority |-> priority, category |-> Str("work"),
     tags |-> tags, dueDate |-> dueDate, startDate |-> Undef,
     assignedTo |-> assignedTo, estimatedHours |-> Undef,
     completionPercentage |-> Num(0)]

\* updateTask: oldTask is the stored task and newTask = {...task, ...updates},
\* so the two differ in the updated fields only.
\* oldTask is absent on creation.
OldTasksOf(new) ==
    {Undef, new}
    \cup {[new EXCEPT !.status = s] : s \in Statuses}
    \cup {[new EXCEPT !.priority = p] : p \in Priorities}
    \cup {[new EXCEPT !.assignedTo = a] : a \in Assignees}

Condition(field, operator, value) ==
    [id |-> "condition-1", field |-> field, operator |-> operator, value |-> value]

Action(action, parameters) ==
    [id |-> "action-1", action |-> action, parameters |-> parameters]

Rule(id, enabled, trigger, conditions, actions, createdAt, triggerCount) ==
    [id |-> id, name |-> "rule", enabled |-> enabled, trigger |-> trigger,
     conditions |-> conditions, actions |-> actions,
     createdAt |-> DateV(createdAt, 1), updatedAt |-> DateV(createdAt, 2),
     lastTriggered |-> Undef, triggerCount |-> triggerCount]

Triggers ==
    {"status_changed", "priority_changed", "assigned", "created",
     "due_date_approaching", "archived"}

Conditions ==
    {Condition("status", "equals", Str("done")),
     Condition("priority", "equals", Str("urgent")),
     Condition("tags", "contains", Str("t1")),
     Condition("status", "matches", Str("done"))}

Actions ==
    {Action("set_status", [status |-> Str("done")]),
     Action("set_priority", [priority |-> Str("urgent")]),
     Action("assign_to", [assignedTo |-> Str("")]),
     Action("assign_to", [assignedTo |-> Str("alice")]),
     Action("assign_to", EmptyObj),
     Action("add_tag", [tag |-> Str("t1")]),
     Action("send_notification", [message |-> Str("hello")]),
     Action("archive", EmptyObj)}

\* calls with one rule of any shape
OneRuleTasks ==
    {Task(s, p, a, t, Undef) :
        s \in Statuses, p \in Priorities, a \in Assignees, t \in TagLists}

OneRuleLists ==
    {<<Rule("r1", e, tr, c, a, 1, 0)>> :
        e \in BOOLEAN, tr \in Triggers,
        c \in SeqsUpTo(Conditions, 1), a \in SeqsUpTo(Actions, 1)}

InitOneRule ==
    /\ newTask \in OneRuleTasks
    /\ oldTask \in OldTasksOf(newTask)
    /\ rules \in OneRuleLists
    /\ now = Clock

\* calls with two rules on an update, where one rule can set what the
\* other one's trigger or condition reads
ChainTasks ==
    {Task(s, p, a, Arr(<<>>), Undef) :
        s \in Statuses, p \in Priorities, a \in {Str(""), Str("alice")}}

ChainOldTasksOf(new) ==
    {[new EXCEPT !.status = s] : s \in Statuses \ {new.status}}
    \cup {[new EXCEPT !.priority = p] : p \in Priorities \ {new.priority}}
    \cup {[new EXCEPT !.assignedTo = a] : a \in Assignees \ {new.assignedTo}}
    \cup {[new EXCEPT !.status = s, !.priority = p, !.assignedTo = Undef] :
            s \in Statuses \ {new.status}, p \in Priorities \ {new.priority}}

ChainTriggers == {"status_changed", "priority_changed", "assigned"}

ChainConditions ==
    {<<>>,
     <<Condition("status", "equals", Str("done"))>>,
     <<Condition("priority", "equals", Str("urgent"))>>,
     <<Condition("assignedTo", "equals", Str("alice"))>>}

ChainActions ==
    {<<Action("set_status", [status |-> Str("done")])>>,
     <<Action("set_priority", [priority |-> Str("urgent")])>>,
     <<Action("assign_to", [assignedTo |-> Str("")])>>,
     <<Action("add_tag", [tag |-> Str("t1")])>>}

FirstRules ==
    {Rule("r1", e, tr, c, a, at, 0) :
        e \in BOOLEAN, tr \in ChainTriggers,
        c \in {<<>>, <<Condition("status", "equals", Str("done"))>>},
        a \in ChainActions, at \in 1..MaxCreatedAt}

SecondRules ==
    {Rule("r2", TRUE, tr, c, a, at, 0) :
        tr \in ChainTriggers, c \in ChainConditions,
        a \in {<<Action("set_status", [status |-> Str("done")])>>,
               <<Action("add_tag", [tag |-> Str("t2")])>>},
        at \in 1..MaxCreatedAt}

InitChain ==
    /\ newTask \in ChainTasks
    /\ oldTask \in ChainOldTasksOf(newTask)
    /\ rules \in {<<r1, r2>> : r1 \in FirstRules, r2 \in SecondRules}
    /\ now = Clock

\* calls with a due date around the 24 hour window
DueOffsets ==
    {0 - MsPerHour, 0 - 1, 0, 1, MsPerHour, 24 * MsPerHour - 1, 24 * MsPerHour,
     24 * MsPerHour + 1, 48 * MsPerHour}

DueDates == {Undef} \cup {DateV(Clock + off, 1) : off \in DueOffsets}

DueTasks ==
    {Task(s, Str("low"), Undef, Arr(<<>>), d) : s \in Statuses, d \in DueDates}

\* on creation; on an update of the status or of the due date (a new Date
\* object of the same or of another instant); on an update of nothing
DueOldTasksOf(new) ==
    {Undef, new}
    \cup {[new EXCEPT !.status = s] : s \in Statuses}
    \cup {[new EXCEPT !.dueDate = DateV(new.dueDate.ms + d, 2)] :
            d \in IF IsDate(new.dueDate) THEN {0, 1} ELSE {}}
    \cup {[new EXCEPT !.dueDate = Undef]}

DueRuleLists ==
    {<<Rule("r1", e, "due_date_approaching", c, a, 1, 0)>> :
        e \in BOOLEAN, c \in SeqsUpTo(Conditions, 1), a \in SeqsUpTo(Actions, 1)}

InitDue ==
    /\ newTask \in DueTasks
    /\ oldTask \in DueOldTasksOf(newTask)
    /\ rules \in DueRuleLists
    /\ now = Clock

\* calls with one enabled rule whose condition reads any field, one the task
\* has not among them, with any operator and comparand
FieldTasks ==
    {[Task(Str("todo"), Str("low"), a, Arr(<<Str("t1")>>), Undef)
        EXCEPT !.completionPercentage = c] :
        a \in {Undef, Str("alice")}, c \in {Num(0), Num(50)}}

\* on creation; on an update of nothing, of the title, of the tags, of the
\* due date, of the status, of the priority
FieldOldTasksOf(new) ==
    {Undef, new,
     [new EXCEPT !.title = Str("T")],
     [new EXCEPT !.tags = Arr(<<>>)],
     [new EXCEPT !.dueDate = DateV(Clock, 1)],
     [new EXCEPT !.status = Str("done")],
     [new EXCEPT !.priority = Str("urgent")]}

FieldNames ==
    {"status", "assignedTo", "completionPercentage", "estimatedHours", "tags",
     "sprintId"}

Operators ==
    {"equals", "not_equals", "greater_than", "less_than", "contains", "matches"}

FieldValues == {Str("done"), Str("und"), Str(""), Str("5"), Num(5), Undef}

FieldTriggers == {"created", "status_changed", "priority_changed", "archived"}

FieldActions ==
    {Action("set_priority", [priority |-> Str("urgent")]),
     Action("set_status", EmptyObj),
     Action("archive", EmptyObj)}

FieldRuleLists ==
    {<<Rule("r1", TRUE, tr, <<Condition(f, op, v)>>, <<a>>, 1, 0)>> :
        tr \in FieldTriggers, f \in FieldNames, op \in Operators,
        v \in FieldValues, a \in FieldActions}

InitField ==
    /\ newTask \in FieldTasks
    /\ oldTask \in FieldOldTasksOf(newTask)
    /\ rules \in FieldRuleLists
    /\ now = Clock

\* calls on a creation with one enabled rule of several actions
MaxActions == 2   \* longest action list of such a rule

MultiActions ==
    {Action("set_status", [status |-> Str("done")]),
     Action("set_status", [status |-> Str("review")]),
     Action("set_priority", [priority |-> Str("urgent")]),
     Action("set_priority", [priority |-> Str("high")]),
     Action("assign_to", [assignedTo |-> Str("alice")]),
     Action("assign_to", [assignedTo |-> Str("")]),
     Action("assign_to", EmptyObj),
     Action("add_tag", [tag |-> Str("t1")]),
     Action("add_tag", [tag |-> Str("t2")]),
     Action("add_tag", [tag |-> Str("")]),
     Action("send_notification", [message |-> Str("hello")])}

MultiTasks ==
    {Task(Str("todo"), Str("low"), a, t, Undef) :
        a \in {Undef, Str("bob")}, t \in TagLists}

MultiRuleLists ==
    {<<Rule("r1", TRUE, "created", <<>>, a, 1, 0)>> :
        a \in SeqsUpTo(MultiActions, MaxActions)}

InitMulti ==
    /\ newTask \in MultiTasks
    /\ oldTask = Undef
    /\ rules \in MultiRuleLists
    /\ now = Clock

Init ==
    /\ pc = "call"
    /\ (InitOneRule \/ InitChain \/ InitDue \/ InitField \/ InitMulti)
    /\ task = Undef
    /\ triggeredRules = <<>>
    /\ firedArg = <<>>
    /\ countedRules = <<>>
    /\ tasks = <<>>
    /\ automationRules = <<>>
    /\ uuid = 0
    /\ firedLog = <<>>

ExecuteAutomationRules ==
    /\ pc = "call"
    /\ LET r == executeAutomationRules(oldTask, newTask, rules, now)
           a == argumentsAfter(oldTask, newTask, rules, now)
       IN  /\ task' = r.task
           /\ triggeredRules' = r.triggeredRules
           /\ oldTask' = a.oldTask
           /\ newTask' = a.newTask
           /\ rules' = a.rules
    /\ pc' = "executed"
    /\ UNCHANGED <<now, firedArg, countedRules, appVars>>

Next == ExecuteAutomationRules

Spec == Init /\ [][Next]_vars

----------------------------------------------------------------------------
(* Calls of updateRuleTriggerCount *)

CountedRuleSet(id) ==
    {[Rule(id, e, "created", <<>>, <<Action("add_tag", [tag |-> Str("t1")])>>, at, n)
        EXCEPT !.lastTriggered = lt] :
        e \in BOOLEAN, at \in 1..MaxCreatedAt, n \in 0..MaxTriggerCount,
        lt \in {Undef, DateV(1, 3)}}

\* "r9" is the id of no rule
FiredIdLists == SeqsUpTo({"r1", "r2", "r9"}, 2)

InitCount ==
    /\ pc = "count"
    /\ rules \in {<<>>} \cup {<<r1>> : r1 \in CountedRuleSet("r1")}
                \cup {<<r1, r2>> : r1 \in CountedRuleSet("r1"), r2 \in CountedRuleSet("r2")}
    /\ now = Clock
    /\ oldTask = Undef
    /\ newTask = Undef
    /\ task = Undef
    /\ triggeredRules = <<>>
    /\ firedArg = <<>>
    /\ countedRules = <<>>
    /\ tasks = <<>>
    /\ automationRules = <<>>
    /\ uuid = 0
    /\ firedLog = <<>>

UpdateRuleTriggerCount ==
    /\ pc = "count"
    /\ \E ids \in FiredIdLists :
          /\ firedArg' = ids
          /\ countedRules' = updateRuleTriggerCount(rules, ids, now)
    /\ pc' = "counted"
    /\ UNCHANGED <<oldTask, newTask, rules, now, task, triggeredRules, appVars>>

\* a second call with the same ids, on the array the first call returned
UpdateRuleTriggerCountAgain ==
    /\ pc = "counted"
    /\ countedRules' = updateRuleTriggerCount(countedRules, firedArg, now)
    /\ pc' = "recounted"
    /\ UNCHANGED <<oldTask, newTask, rules, now, task, triggeredRules, firedArg, appVars>>

NextCount == UpdateRuleTriggerCount \/ UpdateRuleTriggerCountAgain

SpecCount == InitCount /\ [][NextCount]_vars

----------------------------------------------------------------------------
(* The App (App.tsx): the stored tasks and rules, and the operations on     *)
(* them.  Every operation is one event handler; it reads the state of the   *)
(* render it was made in and replaces the state when it returns.  oldTask,  *)
(* newTask, rules, task and triggeredRules record the call of               *)
(* executeAutomationRules the operation made, firedArg and countedRules     *)
(* its call of updateRuleTriggerCount.                                      *)

MaxOps == 4          \* operations of one run of the App
MaxStoredTasks == 1  \* tasks the App holds at most
MaxStoredRules == 2  \* rules the App holds at most

\* crypto.randomUUID(): the n-th id given out
Uuid(n) == "uuid-" \o ToString(n)

\* the fields of NewTaskFormData a form is filled with
NewTaskForms ==
    {[priority |-> p, assignedTo |-> Undef, tags |-> Arr(<<>>), dueDate |-> Undef] :
        p \in Priorities}

\* updates given to updateTask by the views
TaskUpdates ==
    {[status |-> Str("done")], [status |-> Str("todo")], [priority |-> Str("urgent")]}

\* what handleSaveRule reads from the form of the rule builder: a name, at
\* least one condition and at least one action.  The form keeps what is
\* typed for an action under the key value of its parameters
\* (handleUpdateAction), and {} when nothing is typed (handleAddAction).
RuleForms ==
    {[name |-> "rule", description |-> Str(""), trigger |-> tr,
      conditions |-> <<Condition("status", "not_equals", Str("review"))>>,
      actions |-> <<Action("set_status", parameters)>>] :
        tr \in {"created", "status_changed"},
        parameters \in {EmptyObj, [value |-> Str("done")]}}

\* the form handleEditRule fills from a stored rule, with the trigger
\* chosen again
EditForms(rule) ==
    {[name |-> rule.name, description |-> Str(""), trigger |-> tr,
      conditions |-> rule.conditions, actions |-> rule.actions] :
        tr \in {"created", "status_changed"}}

\* the rules loadFromLocalStorage returns on mount: none, or rules a store
\* holds, with the parameters applyAction reads; "r1" has fired before
LoadedCount(id) == IF id = "r1" THEN MaxTriggerCount ELSE 0

LoadedRuleLists ==
    LET firsts == {[Rule("r1", TRUE, tr, <<>>, <<a>>, 1, LoadedCount("r1"))
                       EXCEPT !.lastTriggered = DateV(1, 3)] :
                      tr \in {"created", "status_changed"},
                      a \in {Action("set_status", [status |-> Str("done")])}}
        second == Rule("r2", TRUE, "status_changed",
                       <<Condition("priority", "equals", Str("urgent"))>>,
                       <<Action("add_tag", [tag |-> Str("t2")])>>, 2, LoadedCount("r2"))
    IN  {<<>>} \cup {<<r1>> : r1 \in firsts} \cup {<<r1, second>> : r1 \in firsts}

\* newTask of createTask(formData)
createdTask(formData, id, clock) ==
    Spread(Task(Str("todo"), formData.priority, formData.assignedTo,
                formData.tags, formData.dueDate),
           [id |-> Str(id), createdAt |-> DateV(clock, 0),
            updatedAt |-> DateV(clock, 0)])

\* manuallyUpdatedTask of updateTask(id, updates)
manuallyUpdatedTask(t, updates, clock) ==
    Spread(Spread(t, updates), [updatedAt |-> DateV(clock, 0)])

\* a plausible slip: the guard asks for more than one fired rule
countedAfterSeveral(rs, fired, clock) ==
    IF Len(fired) > 1 THEN updateRuleTriggerCount(rs, fired, clock) ELSE rs

\* what createTask and updateTask give to setAutomationRules, if anything
countedAfter(rs, fired, clock) ==
    IF Len(fired) > 0 THEN updateRuleTriggerCount(rs, fired, clock) ELSE rs

\* createAutomationRule(rule), rule being what handleSaveRule passes
createAutomationRule(rs, form, id, clock) ==
    LET rule == Spread(form, [enabled |-> TRUE, lastTriggered |-> Undef])
        newRule == Spread(rule, [id |-> id, createdAt |-> DateV(clock, 1),
                                 updatedAt |-> DateV(clock, 2), triggerCount |-> 0])
    IN  Append(rs, newRule)

\* a plausible slip: an edit rebuilds the rule the way a new one is built
updateAutomationRuleAsNew(rs, id, updates, clock) ==
    [i \in 1..Len(rs) |->
        IF rs[i].id = id
        THEN Spread(Spread(rs[i], updates),
                    [updatedAt |-> DateV(clock, 0), triggerCount |-> 0])
        ELSE rs[i]]

\* updateAutomationRule(id, updates)
updateAutomationRule(rs, id, updates, clock) ==
    [i \in 1..Len(rs) |->
        IF rs[i].id = id
        THEN Spread(Spread(rs[i], updates), [updatedAt |-> DateV(clock, 0)])
        ELSE rs[i]]

\* deleteAutomationRule(id)
deleteAutomationRule(rs, id) == SelectSeq(rs, LAMBDA rule : rule.id # id)

\* the state after the effect of the mount has run
InitApp ==
    /\ pc = "app"
    /\ tasks = <<>>
    /\ automationRules \in LoadedRuleLists
    /\ uuid = 0
    /\ firedLog = <<>>
    /\ now = Clock
    /\ oldTask = Undef
    /\ newTask = Undef
    /\ rules = <<>>
    /\ task = Undef
    /\ triggeredRules = <<>>
    /\ firedArg = <<>>
    /\ countedRules = <<>>

\* every operation is a later event: the clock has moved on
Tick ==
    /\ now - Clock < MaxOps
    /\ now' = now + 1

NoEngineCall ==
    /\ oldTask' = Undef
    /\ newTask' = Undef
    /\ rules' = <<>>
    /\ task' = Undef
    /\ triggeredRules' = <<>>
    /\ firedArg' = <<>>
    /\ countedRules' = <<>>
    /\ UNCHANGED firedLog

EngineCall(old, new) ==
    LET r == executeAutomationRules(old, new, automationRules, now)
    IN  /\ oldTask' = old
        /\ newTask' = new
        /\ rules' = automationRules
        /\ task' = r.task
        /\ triggeredRules' = r.triggeredRules
        /\ firedArg' = r.triggeredRules
        /\ countedRules' =
              IF Len(r.triggeredRules) > 0
              THEN updateRuleTriggerCount(automationRules, r.triggeredRules, now)
              ELSE <<>>
        /\ automationRules' = countedAfter(automationRules, r.triggeredRules, now)
        /\ firedLog' = firedLog \o r.triggeredRules

CreateTask ==
    /\ Tick
    /\ Len(tasks) < MaxStoredTasks
    /\ \E formData \in NewTaskForms :
          LET new == createdTask(formData, Uuid(uuid + 1), now)
          IN  /\ EngineCall(Undef, new)
              /\ tasks' = Append(tasks, executeAutomationRules(Undef, new, automationRules, now).task)
    /\ uuid' = uuid + 1
    /\ pc' = "createTask"

\* updateTask(id, updates) for the id of a stored task
UpdateTask ==
    /\ Tick
    /\ \E i \in 1..Len(tasks), updates \in TaskUpdates :
          LET new == manuallyUpdatedTask(tasks[i], updates, now)
          IN  /\ EngineCall(tasks[i], new)
              /\ tasks' = [tasks EXCEPT ![i] =
                             executeAutomationRules(tasks[i], new, automationRules, now).task]
    /\ pc' = "updateTask"
    /\ UNCHANGED uuid

\* handleSaveRule without editingRule
CreateAutomationRule ==
    /\ Tick
    /\ Len(automationRules) < MaxStoredRules
    /\ \E form \in RuleForms :
          automationRules' = createAutomationRule(automationRules, form, Uuid(uuid + 1), now)
    /\ uuid' = uuid + 1
    /\ NoEngineCall
    /\ pc' = "createAutomationRule"
    /\ UNCHANGED tasks

\* handleSaveRule with editingRule
EditAutomationRule ==
    /\ Tick
    /\ \E i \in 1..Len(automationRules) : \E form \in EditForms(automationRules[i]) :
          automationRules' = updateAutomationRule(automationRules, automationRules[i].id, form, now)
    /\ NoEngineCall
    /\ pc' = "editAutomationRule"
    /\ UNCHANGED <<tasks, uuid>>

\* toggleAutomationRule(rule.id, !rule.enabled)
ToggleAutomationRule ==
    /\ Tick
    /\ \E i \in 1..Len(automationRules) :
          automationRules' = updateAutomationRule(automationRules, automationRules[i].id,
                                 [enabled |-> ~automationRules[i].enabled], now)
    /\ NoEngineCall
    /\ pc' = "toggleAutomationRule"
    /\ UNCHANGED <<tasks, uuid>>

DeleteAutomationRule ==
    /\ Tick
    /\ \E i \in 1..Len(automationRules) :
          automationRules' = deleteAutomationRule(automationRules, automationRules[i].id)
    /\ NoEngineCall
    /\ pc' = "deleteAutomationRule"
    /\ UNCHANGED <<tasks, uuid>>

NextApp ==
    \/ CreateTask
    \/ UpdateTask
    \/ CreateAutomationRule
    \/ EditAutomationRule
    \/ ToggleAutomationRule
    \/ DeleteAutomationRule

SpecApp == InitApp /\ [][NextApp]_vars

----------------------------------------------------------------------------
(* What a call did, read from its arguments and its result *)

Executed == pc = "executed"

\* the change executeAutomationRules builds once, before the loop
TheChange ==
    [oldTask |-> oldTask, newTask |-> newTask,
     changedFields |-> getChangedFields(oldTask, newTask)]

\* the rules in the order of the loop
Sorted == sortByCreatedAt(rules)

\* updatedTask when the loop reaches the k-th rule
SnapshotBefore(k) ==
    runRules(SubSeq(Sorted, 1, k - 1), TheChange, now,
             [task |-> newTask, triggeredRules |-> <<>>]).task

\* ruleUpdates of the k-th rule, were its actions applied
PatchOf(k) == foldActions(SnapshotBefore(k), Sorted[k].actions, EmptyObj)

Fired(id) == \E k \in 1..Len(triggeredRules) : triggeredRules[k] = id

Without(q, i) == SubSeq(q, 1, i - 1) \o SubSeq(q, i + 1, Len(q))

HasAction(rule, kind) == \E j \in 1..Len(rule.actions) : rule.actions[j].action = kind

----------------------------------------------------------------------------
(* Claims *)

\* C1: the id of a rule with enabled = false is never in the fired list,
\* whatever its trigger, conditions and actions, and the rule contributes
\* nothing to the returned task: the call returns what it returns without
\* that rule.
C1_DisabledNeverFires ==
    Executed =>
        \A i \in 1..Len(rules) :
            ~rules[i].enabled =>
                /\ ~Fired(rules[i].id)
                /\ LET r == executeAutomationRules(oldTask, newTask, Without(rules, i), now)
                   IN  task = r.task /\ triggeredRules = r.triggeredRules

\* a disabled rule that would have fired and changed the task, had it been
\* enabled, next to a rule that fires
C1_Witness ==
    /\ Executed
    /\ Len(rules) = 2
    /\ Len(triggeredRules) = 1
    /\ \E i \in 1..Len(rules) :
          /\ ~rules[i].enabled
          /\ LET r == executeAutomationRules(oldTask, newTask,
                          [rules EXCEPT ![i].enabled = TRUE], now)
             IN  /\ \E k \in 1..Len(r.triggeredRules) : r.triggeredRules[k] = rules[i].id
                 /\ r.task # task

\* newTask with the patch of the first rule of the loop
PatchedByFirst ==
    Spread(newTask, foldActions(newTask, Sorted[1].actions, EmptyObj))

\* the first rule of the loop fired and the second one's trigger matches and
\* its actions change something
ChainCase ==
    /\ Executed
    /\ Len(rules) = 2
    /\ Fired(Sorted[1].id)
    /\ shouldTriggerRule(Sorted[2], TheChange, now)
    /\ foldActions(PatchedByFirst, Sorted[2].actions, EmptyObj) # EmptyObj

\* C2: when R1 precedes R2 in createdAt order and R1 fires, R2's conditions
\* are evaluated on the working snapshot that holds R1's patch: R2 fires iff
\* its conditions hold on the patched task, so it fires when they hold only
\* on the patched value and does not when they held only on the unpatched one.
C2_LaterRuleSeesPatch ==
    ChainCase =>
        (Fired(Sorted[2].id) <=> evaluateConditions(PatchedByFirst, Sorted[2].conditions))

\* R2's condition holds only thanks to R1's patch, and R2 fires
C2_Witness ==
    /\ ChainCase
    /\ Sorted[1].createdAt.ms < Sorted[2].createdAt.ms
    /\ evaluateConditions(PatchedByFirst, Sorted[2].conditions)
    /\ ~evaluateConditions(newTask, Sorted[2].conditions)
    /\ Fired(Sorted[2].id)

\* R2's condition held on newTask only, and R2 does not fire
C2_WitnessClosed ==
    /\ ChainCase
    /\ ~evaluateConditions(PatchedByFirst, Sorted[2].conditions)
    /\ evaluateConditions(newTask, Sorted[2].conditions)
    /\ ~Fired(Sorted[2].id)

\* the k-th rule of the loop passes its trigger and its conditions
Matching(k) ==
    /\ shouldTriggerRule(Sorted[k], TheChange, now)
    /\ evaluateConditions(SnapshotBefore(k), Sorted[k].conditions)

\* C3 (as claimed): a rule whose trigger matches and whose conditions hold is
\* in the fired list iff its folded patch is non-empty or it performed a
\* send_notification action.
C3_FiredIffPatchOrSideEffect ==
    Executed =>
        \A k \in 1..Len(Sorted) :
            Matching(k) =>
                (Fired(Sorted[k].id) <=>
                    (PatchOf(k) # EmptyObj \/ HasAction(Sorted[k], "send_notification")))

\* C4 (as claimed): an enabled rule with no conditions whose trigger matches
\* is always in the fired list, whatever its actions.
C4_NoConditionsAlwaysFires ==
    Executed =>
        \A k \in 1..Len(Sorted) :
            (Sorted[k].conditions = <<>> /\ shouldTriggerRule(Sorted[k], TheChange, now))
                => Fired(Sorted[k].id)

\* C4 (amended): an enabled rule with no conditions whose trigger matches is
\* in the fired list whenever its actions fold to a non-empty patch on the
\* working snapshot, whatever the task's field values; with an empty action
\* list it is not in the fired list.
C4_NoConditionsFiresOnPatch ==
    Executed =>
        \A k \in 1..Len(Sorted) :
            (Sorted[k].conditions = <<>> /\ shouldTriggerRule(Sorted[k], TheChange, now))
                => /\ PatchOf(k) # EmptyObj => Fired(Sorted[k].id)
                   /\ Sorted[k].actions = <<>> => ~Fired(Sorted[k].id)

\* a rule without conditions fired on a task none of whose fields would
\* satisfy the conditions of the model
C4_Witness ==
    /\ Executed
    /\ Len(rules) = 1
    /\ rules[1].conditions = <<>>
    /\ shouldTriggerRule(rules[1], TheChange, now)
    /\ newTask.status = Str("todo")
    /\ newTask.priority = Str("low")
    /\ Fired(rules[1].id)

\* the k-th rule of the loop would go through on its conditions and actions
Passing(k) ==
    /\ evaluateConditions(SnapshotBefore(k), Sorted[k].conditions)
    /\ PatchOf(k) # EmptyObj

\* C5 (as claimed): the trigger of each rule is decided on the working
\* snapshot: a rule whose conditions hold and whose patch is non-empty fires
\* iff its trigger matches with the snapshot in the place of newTask.
C5_TriggerOnWorkingSnapshot ==
    Executed =>
        \A k \in 1..Len(Sorted) :
            Passing(k) =>
                (Fired(Sorted[k].id) <=>
                    shouldTriggerRule(Sorted[k],
                        [TheChange EXCEPT !.newTask = SnapshotBefore(k)], now))

\* C5 (amended): the trigger of each rule is decided on the change built once
\* from oldTask and the original newTask: a rule whose conditions hold and
\* whose patch is non-empty fires iff its trigger matches on newTask, whatever
\* the earlier rules patched.
C5_TriggerOnNewTask ==
    Executed =>
        \A k \in 1..Len(Sorted) :
            Passing(k) =>
                (Fired(Sorted[k].id) <=> shouldTriggerRule(Sorted[k], TheChange, now))

\* an earlier rule put the field back to oldTask's value and the later rule
\* on that field still fired
C5_Witness ==
    /\ Executed
    /\ Len(rules) = 2
    /\ Fired(Sorted[1].id)
    /\ Fired(Sorted[2].id)
    /\ ~shouldTriggerRule(Sorted[2], [TheChange EXCEPT !.newTask = SnapshotBefore(2)], now)

IsAddTagOnly(rule) ==
    /\ Len(rule.actions) = 1
    /\ rule.actions[1].action = "add_tag"
    /\ Truthy(Get(rule.actions[1].parameters, "tag"))

\* C6: a status update to S with the single enabled rule (status_changed,
\* status equals S, add_tag T), T not in newTask.tags: the returned tags are
\* newTask.tags with T appended once at the end, and the rule fired.
C6_Case ==
    /\ Executed
    /\ Len(rules) = 1
    /\ ~IsUndef(oldTask)
    /\ oldTask.status # newTask.status
    /\ rules[1].enabled
    /\ rules[1].trigger = "status_changed"
    /\ Len(rules[1].conditions) = 1
    /\ rules[1].conditions[1].field = "status"
    /\ rules[1].conditions[1].operator = "equals"
    /\ rules[1].conditions[1].value = newTask.status
    /\ IsAddTagOnly(rules[1])
    /\ ~ArrIncludes(newTask.tags.arr, rules[1].actions[1].parameters.tag)

C6_TagAppendedOnce ==
    C6_Case =>
        /\ task.tags = Arr(Append(newTask.tags.arr, rules[1].actions[1].parameters.tag))
        /\ triggeredRules = <<rules[1].id>>

\* the tag is appended behind another tag
C6_Witness ==
    /\ C6_Case
    /\ Len(newTask.tags.arr) > 0
    /\ Len(task.tags.arr) = Len(newTask.tags.arr) + 1

\* C7: when the tag of a rule's only action add_tag is already in the tags,
\* a matching rule returns the input tags and is not reported fired; and a
\* second run on the task returned by a run in which the rule fired, with the
\* trigger matching again, adds nothing and reports nothing.
C7_PresentTagIsNoOp ==
    (Executed /\ Len(rules) = 1 /\ IsAddTagOnly(rules[1])) =>
        /\ (Matching(1) /\ ArrIncludes(newTask.tags.arr, rules[1].actions[1].parameters.tag))
              => (task.tags = newTask.tags /\ task = newTask /\ triggeredRules = <<>>)
        /\ Fired(rules[1].id) =>
              LET again == executeAutomationRules(oldTask, task, rules, now)
              IN  /\ shouldTriggerRule(rules[1],
                        [oldTask |-> oldTask, newTask |-> task,
                         changedFields |-> getChangedFields(oldTask, task)], now)
                  /\ again.task = task
                  /\ again.triggeredRules = <<>>

\* the rule matched on a task that held the tag already
C7_Witness ==
    /\ Executed
    /\ Len(rules) = 1
    /\ IsAddTagOnly(rules[1])
    /\ Matching(1)
    /\ ArrIncludes(newTask.tags.arr, rules[1].actions[1].parameters.tag)
    /\ triggeredRules = <<>>

IsCreatedUrgentRule(rule) ==
    /\ rule.enabled
    /\ rule.trigger = "created"
    /\ rule.conditions = <<>>
    /\ Len(rule.actions) = 1
    /\ rule.actions[1].action = "set_priority"
    /\ Get(rule.actions[1].parameters, "priority") = Str("urgent")

\* C8: an enabled created rule with no conditions and the action
\* set_priority urgent fires on every call without oldTask, whatever
\* newTask.priority (urgent included), and the returned priority is urgent;
\* it never fires when oldTask is present.
C8_CreatedRule ==
    Executed =>
        \A k \in 1..Len(Sorted) :
            IsCreatedUrgentRule(Sorted[k]) =>
                IF IsUndef(oldTask)
                THEN Fired(Sorted[k].id) /\ task.priority = Str("urgent")
                ELSE ~Fired(Sorted[k].id) /\ task = newTask

\* the rule fired on a new task whose priority was urgent already
C8_Witness ==
    /\ Executed
    /\ Len(rules) = 1
    /\ IsCreatedUrgentRule(rules[1])
    /\ IsUndef(oldTask)
    /\ newTask.priority = Str("urgent")
    /\ triggeredRules = <<rules[1].id>>

\* the time from the evaluation to the due date is in ]0, 24 hours]
InDueWindow ==
    /\ IsDate(newTask.dueDate)
    /\ newTask.dueDate.ms - now > 0
    /\ newTask.dueDate.ms - now <= 24 * MsPerHour

\* C9: due_date_approaching matches iff the task has a due date and the time
\* to it is more than 0 and at most 24 hours, whatever oldTask and the change
\* set: an enabled rule of that trigger whose conditions hold and whose patch
\* is non-empty fires iff the due date is in the window.
C9_DueWindow ==
    Executed =>
        \A k \in 1..Len(Sorted) :
            (Sorted[k].trigger = "due_date_approaching" /\ Sorted[k].enabled /\ Passing(k))
                => (Fired(Sorted[k].id) <=> InDueWindow)

\* the rule fired at exactly 24 hours, on an update that changed nothing
C9_Witness ==
    /\ Executed
    /\ Len(rules) = 1
    /\ rules[1].trigger = "due_date_approaching"
    /\ oldTask = newTask
    /\ IsDate(newTask.dueDate)
    /\ newTask.dueDate.ms - now = 24 * MsPerHour
    /\ Fired(rules[1].id)

\* the rule did not fire at exactly 0 hours
C9_WitnessZero ==
    /\ Executed
    /\ Len(rules) = 1
    /\ rules[1].trigger = "due_date_approaching"
    /\ rules[1].enabled
    /\ Passing(1)
    /\ IsDate(newTask.dueDate)
    /\ newTask.dueDate.ms = now
    /\ triggeredRules = <<>>

Counted == pc = "counted"

Listed(id) == \E k \in 1..Len(firedArg) : firedArg[k] = id

\* C10 (as claimed): a rule whose id is listed comes back with triggerCount
\* one higher, lastTriggered at the evaluation time and every other field,
\* updatedAt included, as it was; a rule that is not listed comes back as it
\* was.
C10_OnlyCountAndLastTriggered ==
    Counted =>
        /\ Len(countedRules) = Len(rules)
        /\ \A i \in 1..Len(rules) :
              IF Listed(rules[i].id)
              THEN /\ countedRules[i].triggerCount = rules[i].triggerCount + 1
                   /\ IsDate(countedRules[i].lastTriggered)
                   /\ countedRules[i].lastTriggered.ms = now
                   /\ DOMAIN countedRules[i] = DOMAIN rules[i]
                   /\ \A f \in DOMAIN rules[i] \ {"triggerCount", "lastTriggered"} :
                         countedRules[i][f] = rules[i][f]
              ELSE countedRules[i] = rules[i]

\* C10 (amended): a rule whose id is listed comes back with triggerCount one
\* higher, lastTriggered and updatedAt at the evaluation time and every other
\* field as it was; a rule that is not listed comes back as it was.
C10_CountLastTriggeredUpdatedAt ==
    Counted =>
        /\ Len(countedRules) = Len(rules)
        /\ \A i \in 1..Len(rules) :
              IF Listed(rules[i].id)
              THEN /\ countedRules[i].triggerCount = rules[i].triggerCount + 1
                   /\ IsDate(countedRules[i].lastTriggered)
                   /\ countedRules[i].lastTriggered.ms = now
                   /\ IsDate(countedRules[i].updatedAt)
                   /\ countedRules[i].updatedAt.ms = now
                   /\ DOMAIN countedRules[i] = DOMAIN rules[i]
                   /\ \A f \in DOMAIN rules[i] \ {"triggerCount", "lastTriggered", "updatedAt"} :
                         countedRules[i][f] = rules[i][f]
              ELSE countedRules[i] = rules[i]

\* a rule listed twice is counted once, next to a rule that is not listed
C10_Witness ==
    /\ Counted
    /\ Len(rules) = 2
    /\ firedArg = <<"r1", "r1">>
    /\ rules[1].triggerCount = MaxTriggerCount
    /\ countedRules[1].triggerCount = MaxTriggerCount + 1
    /\ countedRules[1].updatedAt # rules[1].updatedAt
    /\ countedRules[2] = rules[2]

Recounted == pc = "recounted"

\* C11: two calls of updateRuleTriggerCount in sequence with the same
\* non-empty id list, the second on the result of the first, leave each
\* listed rule with a triggerCount 2 above the original and each unlisted
\* rule with its original triggerCount.
C11_TwiceCountsTwo ==
    (Recounted /\ Len(firedArg) > 0) =>
        /\ Len(countedRules) = Len(rules)
        /\ \A i \in 1..Len(rules) :
              countedRules[i].triggerCount =
                  rules[i].triggerCount + (IF Listed(rules[i].id) THEN 2 ELSE 0)

\* one rule counted twice next to a rule that is not listed
C11_Witness ==
    /\ Recounted
    /\ Len(rules) = 2
    /\ firedArg = <<"r2">>
    /\ countedRules[2].triggerCount = rules[2].triggerCount + 2
    /\ countedRules[1].triggerCount = rules[1].triggerCount

IndexOf(id) == CHOOSE i \in 1..Len(rules) : rules[i].id = id

\* rules[i] comes before rules[j] in ascending createdAt order, the position
\* in the array deciding between equal createdAt
Precedes(i, j) ==
    \/ rules[i].createdAt.ms < rules[j].createdAt.ms
    \/ rules[i].createdAt.ms = rules[j].createdAt.ms /\ i < j

PositionIn(q, v) == CHOOSE i \in 1..Len(q) : q[i] = v

\* C13: the rules are processed in ascending createdAt order whatever their
\* order in the array, rules of equal createdAt in their array order; the
\* fired list gives the fired rules in that order, and so do the tags that
\* two fired add_tag rules appended.
C13_ProcessingOrder ==
    Executed =>
        /\ \A a, b \in 1..Len(Sorted) :
              a < b => Precedes(IndexOf(Sorted[a].id), IndexOf(Sorted[b].id))
        /\ \A a, b \in 1..Len(triggeredRules) :
              a < b => Precedes(IndexOf(triggeredRules[a]), IndexOf(triggeredRules[b]))
        /\ \A i, j \in 1..Len(rules) :
              (/\ Precedes(i, j)
               /\ Fired(rules[i].id) /\ Fired(rules[j].id)
               /\ IsAddTagOnly(rules[i]) /\ IsAddTagOnly(rules[j])
               /\ rules[i].actions[1].parameters.tag # rules[j].actions[1].parameters.tag)
                 => PositionIn(task.tags.arr, rules[i].actions[1].parameters.tag)
                      < PositionIn(task.tags.arr, rules[j].actions[1].parameters.tag)

\* the second rule of the array was created first, and both fired
C13_Witness ==
    /\ Executed
    /\ Len(rules) = 2
    /\ rules[2].createdAt.ms < rules[1].createdAt.ms
    /\ triggeredRules = <<rules[2].id, rules[1].id>>
    /\ task.tags = Arr(<<Str("t2"), Str("t1")>>)

\* two rules of equal createdAt fired in their array order
C13_WitnessTie ==
    /\ Executed
    /\ Len(rules) = 2
    /\ rules[2].createdAt.ms = rules[1].createdAt.ms
    /\ triggeredRules = <<rules[1].id, rules[2].id>>
    /\ task.tags = Arr(<<Str("t1"), Str("t2")>>)

Occurrences(q, v) == Cardinality({k \in 1..Len(q) : q[k] = v})

\* C14: one call evaluates every rule once: no id is twice in the fired list,
\* every fired id is the id of an enabled rule of the call, and the fired list
\* is no longer than the number of enabled rules.
C14_EvaluatedOnce ==
    Executed =>
        /\ \A k \in 1..Len(triggeredRules) :
              /\ Occurrences(triggeredRules, triggeredRules[k]) = 1
              /\ \E i \in 1..Len(rules) :
                    rules[i].id = triggeredRules[k] /\ rules[i].enabled
        /\ Len(triggeredRules) <= Cardinality({i \in 1..Len(rules) : rules[i].enabled})

\* both rules fired, and the first of the loop would produce a patch again on
\* the returned task
C14_Witness ==
    /\ Executed
    /\ Len(rules) = 2
    /\ Len(triggeredRules) = 2
    /\ evaluateConditions(task, Sorted[1].conditions)
    /\ foldActions(task, Sorted[1].actions, EmptyObj) # EmptyObj

\* C15: there is no second pass: a rule whose conditions are false on the
\* working snapshot when the loop reaches it does not fire in that call, even
\* when a later rule fires and its actions make those conditions true.
C15_NoFixedPoint ==
    Executed =>
        \A k \in 1..Len(Sorted) :
            ~evaluateConditions(SnapshotBefore(k), Sorted[k].conditions)
                => ~Fired(Sorted[k].id)

\* R1's trigger matches and its conditions are false on newTask; R2 fires and
\* its patch makes them true, where R1's actions would change the task; R1
\* did not fire
C15_Witness ==
    /\ Executed
    /\ Len(rules) = 2
    /\ Sorted[1].createdAt.ms < Sorted[2].createdAt.ms
    /\ shouldTriggerRule(Sorted[1], TheChange, now)
    /\ ~evaluateConditions(newTask, Sorted[1].conditions)
    /\ evaluateConditions(task, Sorted[1].conditions)
    /\ foldActions(task, Sorted[1].actions, EmptyObj) # EmptyObj
    /\ triggeredRules = <<Sorted[2].id>>

KnownTriggers ==
    {"status_changed", "priority_changed", "assigned", "created",
     "due_date_approaching"}

KnownOperators == {"equals", "not_equals", "greater_than", "less_than", "contains"}

KnownActions == {"set_status", "set_priority", "assign_to", "add_tag", "send_notification"}

\* the parameter an action of a known kind reads
ParameterOf(kind) ==
    CASE kind = "set_status" -> "status"
      [] kind = "set_priority" -> "priority"
      [] kind = "assign_to" -> "assignedTo"
      [] kind = "add_tag" -> "tag"
      [] kind = "send_notification" -> "message"

\* a condition on a field the task t does not have, or with an unknown
\* operator, or a numeric comparison with an operand that is no number
OffendingCondition(t, c) ==
    \/ c.field \notin DOMAIN t
    \/ c.operator \notin KnownOperators
    \/ /\ c.operator \in {"greater_than", "less_than"}
       /\ (ToNumber(Get(t, c.field)) = NaN \/ ToNumber(c.value) = NaN)

\* an action of an unknown kind, or without the parameter its kind reads
OffendingAction(a) ==
    \/ a.action \notin KnownActions
    \/ ParameterOf(a.action) \notin DOMAIN a.parameters

\* C16 (as claimed): a malformed element of a rule resolves to false or to
\* no-op: an unknown trigger does not match; a condition with an unknown
\* field, an unknown operator or a non-numeric operand of greater_than /
\* less_than is false on the working snapshot, and its rule does not fire; an
\* action of an unknown kind or without its parameter gives an empty patch.
C16_MalformedIsFalseOrNoOp ==
    Executed =>
        \A k \in 1..Len(Sorted) :
            /\ Sorted[k].trigger \notin KnownTriggers
                  => ~shouldTriggerRule(Sorted[k], TheChange, now)
            /\ \A j \in 1..Len(Sorted[k].conditions) :
                  OffendingCondition(SnapshotBefore(k), Sorted[k].conditions[j])
                      => /\ ~evaluateCondition(SnapshotBefore(k), Sorted[k].conditions[j])
                         /\ ~Fired(Sorted[k].id)
            /\ \A j \in 1..Len(Sorted[k].actions) :
                  OffendingAction(Sorted[k].actions[j])
                      => applyAction(SnapshotBefore(k), Sorted[k].actions[j]) = EmptyObj

\* C17 (as claimed): a condition on a field whose lookup on the working
\* snapshot yields undefined does not match, whichever of the five operators
\* and whatever comparand it has, and its rule does not fire.
C17_UndefinedFieldNeverMatches ==
    Executed =>
        \A k \in 1..Len(Sorted) :
            \A j \in 1..Len(Sorted[k].conditions) :
                (/\ IsUndef(Get(SnapshotBefore(k), Sorted[k].conditions[j].field))
                 /\ Sorted[k].conditions[j].operator \in KnownOperators)
                    => /\ ~evaluateCondition(SnapshotBefore(k), Sorted[k].conditions[j])
                       /\ ~Fired(Sorted[k].id)

\* the assignee changed on an update, to somebody
AssignedTo ==
    /\ ~IsUndef(oldTask)
    /\ oldTask.assignedTo # newTask.assignedTo
    /\ newTask.assignedTo \notin {Undef, Str("")}

\* C18: the assigned trigger matches iff oldTask is present, its assignee
\* differs from newTask's and newTask's assignee is non-empty; an enabled
\* assigned rule that passes its conditions with a patch fires iff so, and
\* never on an update that unassigns the task or leaves the assignee alone.
C18_AssignedTrigger ==
    Executed =>
        \A k \in 1..Len(Sorted) :
            (Sorted[k].enabled /\ Sorted[k].trigger = "assigned")
                => /\ shouldTriggerRule(Sorted[k], TheChange, now) <=> AssignedTo
                   /\ Passing(k) => (Fired(Sorted[k].id) <=> AssignedTo)
                   /\ ~AssignedTo => ~Fired(Sorted[k].id)

\* an assigned rule fired on an update that gave the task to somebody else
C18_Witness ==
    /\ Executed
    /\ Len(rules) = 1
    /\ rules[1].trigger = "assigned"
    /\ oldTask # Undef
    /\ oldTask.assignedTo = Str("")
    /\ newTask.assignedTo = Str("alice")
    /\ Fired(rules[1].id)

\* an assigned rule that passes its conditions did not fire on an update
\* that unassigned the task
C18_WitnessUnassign ==
    /\ Executed
    /\ Len(rules) = 1
    /\ rules[1].enabled
    /\ rules[1].trigger = "assigned"
    /\ oldTask # Undef
    /\ oldTask.assignedTo = Str("alice")
    /\ newTask.assignedTo \in {Undef, Str("")}
    /\ Passing(1)
    /\ ~Fired(rules[1].id)

\* the field differs between a present oldTask and newTask
Changed(field) == ~IsUndef(oldTask) /\ oldTask[field] # newTask[field]

\* C19: the status_changed trigger matches iff oldTask is present and its
\* status differs from newTask's, the priority_changed trigger iff oldTask is
\* present and the priorities differ; an enabled rule that passes its
\* conditions with a patch fires iff so, hence on no update of other fields
\* only (title, tags, dueDate) and on no creation.
C19_FieldChangedTriggers ==
    Executed =>
        \A k \in 1..Len(Sorted) :
            /\ (Sorted[k].enabled /\ Sorted[k].trigger = "status_changed")
                  => /\ shouldTriggerRule(Sorted[k], TheChange, now) <=> Changed("status")
                     /\ Passing(k) => (Fired(Sorted[k].id) <=> Changed("status"))
                     /\ ~Changed("status") => ~Fired(Sorted[k].id)
            /\ (Sorted[k].enabled /\ Sorted[k].trigger = "priority_changed")
                  => /\ shouldTriggerRule(Sorted[k], TheChange, now) <=> Changed("priority")
                     /\ Passing(k) => (Fired(Sorted[k].id) <=> Changed("priority"))
                     /\ ~Changed("priority") => ~Fired(Sorted[k].id)

\* a status_changed rule fired on an update of the status
C19_Witness ==
    /\ Executed
    /\ Len(rules) = 1
    /\ rules[1].trigger = "status_changed"
    /\ Changed("status")
    /\ ~Changed("priority")
    /\ Fired(rules[1].id)

\* a status_changed rule that passes its conditions did not fire on an
\* update of the title only
C19_WitnessOtherField ==
    /\ Executed
    /\ Len(rules) = 1
    /\ rules[1].trigger = "status_changed"
    /\ Changed("title")
    /\ ~Changed("status")
    /\ Passing(1)
    /\ ~Fired(rules[1].id)

\* a priority_changed rule that passes its conditions did not fire on an
\* update of the tags only
C19_WitnessTags ==
    /\ Executed
    /\ Len(rules) = 1
    /\ rules[1].trigger = "priority_changed"
    /\ Changed("tags")
    /\ ~Changed("priority")
    /\ Passing(1)
    /\ ~Fired(rules[1].id)

\* the position in the stored rules of the rule with this id, 0 if none
StoredAt(rs, id) ==
    IF \E i \in 1..Len(rs) : rs[i].id = id
    THEN CHOOSE i \in 1..Len(rs) : rs[i].id = id
    ELSE 0

\* C20: over the App's operations the triggerCount of a rule that stays is
\* never lowered; it is 0 when the rule is created; and it moves only in a
\* createTask or updateTask, by one, to what updateRuleTriggerCount returns
\* for the ids the engine reported fired, this rule's among them.
C20_TriggerCountOnlyCounts ==
    [][\A j \in 1..Len(automationRules') :
          LET after == automationRules'[j]
              i == StoredAt(automationRules, after.id)
          IN  IF i = 0 THEN after.triggerCount = 0
              ELSE /\ after.triggerCount >= automationRules[i].triggerCount
                   /\ after.triggerCount # automationRules[i].triggerCount
                        => /\ pc' \in {"createTask", "updateTask"}
                           /\ after.triggerCount = automationRules[i].triggerCount + 1
                           /\ \E k \in 1..Len(triggeredRules') : triggeredRules'[k] = after.id
                           /\ automationRules' =
                                 updateRuleTriggerCount(automationRules, triggeredRules', now)]_vars

\* a rule that was counted has since been switched off by the rule builder
\* and still has its count
C20_Witness ==
    /\ pc = "toggleAutomationRule"
    /\ \E i \in 1..Len(automationRules) :
          /\ Occurrences(firedLog, automationRules[i].id) >= 1
          /\ automationRules[i].triggerCount > LoadedCount(automationRules[i].id)
          /\ ~automationRules[i].enabled

\* a rule that was counted has since been edited and still has its count,
\* next to a rule created after it
C20_WitnessEdited ==
    /\ pc = "editAutomationRule"
    /\ Len(automationRules) = 2
    /\ Occurrences(firedLog, automationRules[1].id) >= 1
    /\ automationRules[1].triggerCount > LoadedCount(automationRules[1].id)
    /\ automationRules[2].triggerCount = 0
    /\ automationRules[2].createdAt.ms > Clock
    /\ automationRules[1].updatedAt.ms > automationRules[1].lastTriggered.ms

\* C21: a createTask or an updateTask of a stored task calls the engine once,
\* without oldTask on a creation and with the stored task on an update, on
\* the stored rules; it stores the returned task, and it calls
\* updateRuleTriggerCount with the fired ids of that call when there are any.
\* So after any sequence of operations the triggerCount of every stored rule
\* is its first value (what the store held, 0 for a rule made since) plus
\* the number of calls that reported it.
C21_CountIsReportedFirings ==
    /\ \A i \in 1..Len(automationRules) :
          automationRules[i].triggerCount =
              LoadedCount(automationRules[i].id)
                  + Occurrences(firedLog, automationRules[i].id)
    /\ pc \in {"createTask", "updateTask"} =>
          /\ rules # <<>> =>
                LET r == executeAutomationRules(oldTask, newTask, rules, now - 1)
                IN  task = r.task /\ triggeredRules = r.triggeredRules
          /\ firedArg = triggeredRules
          /\ pc = "createTask" => oldTask = Undef /\ tasks[Len(tasks)] = task
          /\ pc = "updateTask" =>
                /\ oldTask # Undef
                /\ \E i \in 1..Len(tasks) : tasks[i] = task /\ tasks[i].id = oldTask.id
          /\ Len(triggeredRules) > 0 =>
                /\ countedRules = updateRuleTriggerCount(rules, triggeredRules, now - 1)
                /\ automationRules = countedRules

\* a rule was reported by two calls, the last one an update that stored a
\* task the rule had patched, and its count is two
C21_Witness ==
    /\ pc = "updateTask"
    /\ task # newTask
    /\ \E i \in 1..Len(automationRules) :
          /\ automationRules[i].triggerCount = LoadedCount(automationRules[i].id) + 2
          /\ Fired(automationRules[i].id)

\* updatedTask when the loop has done the k-th rule
SnapshotAfter(k) ==
    runRules(SubSeq(Sorted, 1, k), TheChange, now,
             [task |-> newTask, triggeredRules |-> <<>>]).task

\* the kind of action that sets the field
SetterOf(field) ==
    CASE field = "status" -> "set_status"
      [] field = "priority" -> "set_priority"
      [] field = "assignedTo" -> "assign_to"

\* the actions of the rule that give the field a value: set_status and
\* set_priority with a non-empty parameter, assign_to with any value but
\* undefined
SettersOf(rule, field) ==
    {j \in 1..Len(rule.actions) :
        /\ rule.actions[j].action = SetterOf(field)
        /\ field \in DOMAIN rule.actions[j].parameters
        /\ IF field = "assignedTo"
           THEN ~IsUndef(rule.actions[j].parameters[field])
           ELSE Truthy(rule.actions[j].parameters[field])}

LastOf(S) == CHOOSE j \in S : \A i \in S : i <= j

\* C22: the actions of a fired rule are applied in list order, a later one
\* overwriting what an earlier one set: status, priority and assignedTo have
\* the value of the last action of the rule that sets them, and the value
\* they had before the rule when no action of the rule sets them.
C22_LastActionWins ==
    Executed =>
        \A k \in 1..Len(Sorted) :
            Fired(Sorted[k].id) =>
                \A field \in {"status", "priority", "assignedTo"} :
                    LET setters == SettersOf(Sorted[k], field)
                    IN  IF setters = {}
                        THEN SnapshotAfter(k)[field] = SnapshotBefore(k)[field]
                        ELSE SnapshotAfter(k)[field] =
                                Sorted[k].actions[LastOf(setters)].parameters[field]

\* a rule with the actions set_status done, set_status review returned
\* review
C22_Witness ==
    /\ Executed
    /\ Len(rules) = 1
    /\ Len(rules[1].actions) = 2
    /\ rules[1].actions[1] = Action("set_status", [status |-> Str("done")])
    /\ rules[1].actions[2] = Action("set_status", [status |-> Str("review")])
    /\ Fired(rules[1].id)
    /\ task.status = Str("review")

\* a rule with the actions set_priority urgent, assign_to alice returned both
C22_WitnessBoth ==
    /\ Executed
    /\ Len(rules) = 1
    /\ Len(rules[1].actions) = 2
    /\ rules[1].actions[1] = Action("set_priority", [priority |-> Str("urgent")])
    /\ rules[1].actions[2] = Action("assign_to", [assignedTo |-> Str("alice")])
    /\ newTask.assignedTo = Str("bob")
    /\ task.priority = Str("urgent")
    /\ task.assignedTo = Str("alice")

\* the k-th rule of the loop has the one action assign_to with these
\* parameters
AssignsOnly(k, parameters) == Sorted[k].actions = <<Action("assign_to", parameters)>>

\* C23: assign_to with the parameter assignedTo present and empty gives the
\* patch {assignedTo: ""}: a rule with that one action that passes its
\* trigger and conditions is reported fired and leaves assignedTo empty.
\* assign_to without the parameter gives the empty patch: such a rule is not
\* reported and leaves assignedTo as it was.
C23_AssignEmptyOrMissing ==
    Executed =>
        \A k \in 1..Len(Sorted) :
            /\ AssignsOnly(k, [assignedTo |-> Str("")]) =>
                  /\ PatchOf(k) = [assignedTo |-> Str("")]
                  /\ Matching(k) =>
                        /\ Fired(Sorted[k].id)
                        /\ SnapshotAfter(k).assignedTo = Str("")
            /\ AssignsOnly(k, EmptyObj) =>
                  /\ PatchOf(k) = EmptyObj
                  /\ ~Fired(Sorted[k].id)
                  /\ SnapshotAfter(k).assignedTo = SnapshotBefore(k).assignedTo

\* a rule unassigned a task that had an assignee, and is reported
C23_Witness ==
    /\ Executed
    /\ Len(rules) = 1
    /\ AssignsOnly(1, [assignedTo |-> Str("")])
    /\ newTask.assignedTo = Str("alice")
    /\ task.assignedTo = Str("")
    /\ triggeredRules = <<rules[1].id>>

\* a matching rule whose assign_to has no parameter left the assignee alone
C23_WitnessMissing ==
    /\ Executed
    /\ Len(rules) = 1
    /\ AssignsOnly(1, EmptyObj)
    /\ Matching(1)
    /\ newTask.assignedTo = Str("alice")
    /\ task.assignedTo = Str("alice")
    /\ triggeredRules = <<>>

\* a number, or a text that writes one
Numeric(v) ==
    \/ IsNum(v)
    \/ /\ IsStr(v)
       /\ LET cs == CharsOf(v.str)
              ds == IF Len(cs) > 0 /\ cs[1] = "-" THEN Tail(cs) ELSE cs
          IN  Len(ds) > 0 /\ \A i \in 1..Len(ds) : IsDigit(ds[i])

\* the number a numeric value stands for
NumberOf(v) ==
    IF IsNum(v) THEN v.num
    ELSE LET cs == CharsOf(v.str)
         IN  IF cs[1] = "-" THEN 0 - DigitsVal(Tail(cs)) ELSE DigitsVal(cs)

\* C24 (as claimed): a greater_than or less_than condition is false when the
\* task's value or the comparand is not numeric (undefined, the empty string,
\* a text that is no number); otherwise it is the comparison of the two
\* numbers; and the two operators are never both true of the same operands.
C24_NumericComparison ==
    Executed =>
        \A k \in 1..Len(Sorted) :
            \A j \in 1..Len(Sorted[k].conditions) :
                LET c == Sorted[k].conditions[j]
                    taskValue == Get(SnapshotBefore(k), c.field)
                    gt == evaluateCondition(SnapshotBefore(k), [c EXCEPT !.operator = "greater_than"])
                    lt == evaluateCondition(SnapshotBefore(k), [c EXCEPT !.operator = "less_than"])
                IN  c.operator \in {"greater_than", "less_than"} =>
                        /\ ~(gt /\ lt)
                        /\ IF Numeric(taskValue) /\ Numeric(c.value)
                           THEN /\ gt <=> NumberOf(taskValue) > NumberOf(c.value)
                                /\ lt <=> NumberOf(taskValue) < NumberOf(c.value)
                           ELSE ~gt /\ ~lt

WatchedFields ==
    {"status", "priority", "category", "assignedTo", "dueDate", "startDate",
     "completionPercentage", "estimatedHours", "title", "description"}

\* equality of the values: two dates are equal when they are the same instant
ValueEq(a, b) == IF IsDate(a) /\ IsDate(b) THEN a.ms = b.ms ELSE a = b

\* C25 (as claimed): the change set is {created} without oldTask; otherwise
\* it is the set of the watched fields whose values differ between oldTask
\* and newTask, two due dates of the same instant being equal; a field that
\* is not watched (tags) is never in it.
C25_ChangedByValue ==
    Executed =>
        TheChange.changedFields =
            IF IsUndef(oldTask) THEN {"created"}
            ELSE {field \in WatchedFields :
                     ~ValueEq(Get(oldTask, field), Get(newTask, field))}

\* C26 (as claimed): after a fired rule, the tag of each of its add_tag
\* actions with a non-empty tag is among the tags of the task, also when the
\* rule has several add_tag actions of different tags that the task did not
\* have.
C26_EveryTagAdded ==
    Executed =>
        \A k \in 1..Len(Sorted) :
            Fired(Sorted[k].id) =>
                \A j \in 1..Len(Sorted[k].actions) :
                    LET a == Sorted[k].actions[j]
                    IN  (a.action = "add_tag" /\ Truthy(Get(a.parameters, "tag")))
                            => ArrIncludes(SnapshotAfter(k).tags.arr, a.parameters.tag)

PatchedFields == {"status", "priority", "assignedTo", "tags"}

IsPrefix(p, q) == Len(p) <= Len(q) /\ SubSeq(q, 1, Len(p)) = p

\* C27: the returned task has the fields of newTask and differs from it in
\* status, priority, assignedTo and tags at most; the tags of newTask are a
\* prefix of the returned tags.
C27_Frame ==
    Executed =>
        /\ DOMAIN task = DOMAIN newTask
        /\ \A field \in DOMAIN newTask \ PatchedFields : task[field] = newTask[field]
        /\ IsPrefix(newTask.tags.arr, task.tags.arr)

\* a call changed the status and gave a second tag to a task that had one
C27_Witness ==
    /\ Executed
    /\ Len(triggeredRules) > 0
    /\ task.status # newTask.status
    /\ Len(newTask.tags.arr) = 1
    /\ Len(task.tags.arr) = 2

DistinctCreatedAt ==
    \A i, j \in 1..Len(rules) :
        i # j => rules[i].createdAt.ms # rules[j].createdAt.ms

\* the rules array in the order p
Permuted(p) == [i \in 1..Len(rules) |-> rules[p[i]]]

\* C28: when the createdAt of the rules are pairwise distinct, the call
\* returns the same task and the same fired list for every order of the
\* rules array, oldTask, newTask and the clock being the same.
C28_OrderOfArrayIrrelevant ==
    (Executed /\ DistinctCreatedAt) =>
        \A p \in Permutations(1..Len(rules)) :
            executeAutomationRules(oldTask, newTask, Permuted(p), now)
                = [task |-> task, triggeredRules |-> triggeredRules]

\* two rules of distinct createdAt, the later one first in the array, and
\* running them in the order of the array would have returned something else
C28_Witness ==
    /\ Executed
    /\ Len(rules) = 2
    /\ rules[1].createdAt.ms > rules[2].createdAt.ms
    /\ Len(triggeredRules) > 0
    /\ runRules(rules, TheChange, now, [task |-> newTask, triggeredRules |-> <<>>])
          # [task |-> task, triggeredRules |-> triggeredRules]

RuleOf(id) == rules[IndexOf(id)]

\* C29: on a creation (no oldTask) no rule with the trigger status_changed,
\* priority_changed or assigned fires, whatever status, priority and
\* assignee newTask has: every fired rule has the trigger created or
\* due_date_approaching.
C29_CreationFiresCreatedOrDue ==
    (Executed /\ IsUndef(oldTask)) =>
        /\ \A k \in 1..Len(triggeredRules) :
              RuleOf(triggeredRules[k]).trigger \in {"created", "due_date_approaching"}
        /\ \A i \in 1..Len(rules) :
              rules[i].trigger \in {"status_changed", "priority_changed", "assigned"}
                  => /\ ~shouldTriggerRule(rules[i], TheChange, now)
                     /\ ~Fired(rules[i].id)

\* an enabled assigned rule that passes its conditions with a patch did not
\* fire on the creation of a task with an assignee
C29_Witness ==
    /\ Executed
    /\ IsUndef(oldTask)
    /\ Len(rules) = 1
    /\ rules[1].enabled
    /\ rules[1].trigger = "assigned"
    /\ newTask.assignedTo = Str("alice")
    /\ Passing(1)
    /\ triggeredRules = <<>>

\* a due_date_approaching rule fired on a creation
C29_WitnessDue ==
    /\ Executed
    /\ IsUndef(oldTask)
    /\ Len(rules) = 1
    /\ rules[1].trigger = "due_date_approaching"
    /\ triggeredRules = <<rules[1].id>>

====
